---- MODULE Spec2Model ----
(***************************************************************************)
(* HEWS Garmin sync (sync_garmin.py): main authenticates once, iterates    *)
(* over today + yesterday or over a START_DATE..END_DATE range, calls six  *)
(* per-day endpoints inside fetch_health_data and writes one JSON file.    *)
(*                                                                         *)
(* Python values are modelled as tagged records [t, v]:                    *)
(*   t = "none"  None (a missing key read through .get, or a null)         *)
(*   t = "num"   a number, v its value in tenths (fixed point, one decimal)*)
(*   t = "dict"  a non-empty nested mapping (truthy, no arithmetic)        *)
(*   t = "list"  a nested list of v elements (truthy when v > 0; + and *   *)
(*               concatenate and repeat it, other arithmetic raises)       *)
(*   t = "error" the result of an operation that raises TypeError          *)
(* Not modelled: a failing import of garminconnect (lines 14-19) and       *)
(* failures of the file system at lines 250-254.                           *)
(***************************************************************************)
EXTENDS Integers, Sequences, FiniteSets, TLC

\* Longest START_DATE..END_DATE range drawn, in days between the endpoints.
MaxSpan == 2

\* Number of times the clock advances during one run.
MaxTicks == 1

VARIABLES
    env,          \* os.environ: GARMIN_EMAIL, GARMIN_PASSWORD, START_DATE, END_DATE
    now,          \* the value datetime.now() returns
    pc,           \* position of the interpreter in main / fetch_health_data
    site,         \* call site of the running fetch_health_data
    status,       \* process exit status ("running" until the process ends)
    current_date, \* main: loop variable / fetch_health_data: target_date
    end_date,     \* main: parsed END_DATE
    health_data,  \* fetch_health_data: the record being built
    resp,         \* responses the six endpoints gave to the running fetch
    failed,       \* groups whose try block ended in its except handler
    target_date,  \* fetch_health_data: the date asked for
    today,        \* main: datetime.now() taken in daily mode
    output,       \* main: the document to write
    today_data,   \* main: record of today (daily mode)
    yesterday_data, \* main: record of yesterday (daily mode)
    history,      \* main: list of records (historical mode)
    calls,        \* trace of calls made on the client and of file writes
    login_result, \* how the login attempt ended ("none" before it)
    ticks,        \* number of times the clock has advanced
    file          \* content of data/health_data.json ("absent" record if unwritten)

vars == <<env, now, pc, site, status, current_date, end_date, health_data, resp,
          failed, target_date, today, output, today_data, yesterday_data, history, calls,
          login_result, ticks, file>>

----------------------------------------------------------------------------
\* Python values

NoneVal == [t |-> "none", v |-> 0]
Num(n) == [t |-> "num", v |-> n]
Whole(n) == Num(10 * n)
Nested == [t |-> "dict", v |-> 0]
List(n) == [t |-> "list", v |-> n]
TypeError == [t |-> "error", v |-> 0]

\* bool(x): None and 0 are falsy, other numbers and non-empty dicts truthy
Truthy(x) == x.t = "dict" \/ (x.t \in {"num", "list"} /\ x.v # 0)

\* a or b
PyOr(a, b) == IF Truthy(a) THEN a ELSE b

IsNum(x) == x.t = "num"

\* x * 2: doubles a number, repeats a list
Times2(x) == IF x.t \in {"num", "list"} THEN [x EXCEPT !.v = x.v * 2] ELSE TypeError

\* a + b: adds two numbers, concatenates two lists
Plus(a, b) ==
    IF a.t = b.t /\ a.t \in {"num", "list"} THEN [a EXCEPT !.v = a.v + b.v]
    ELSE TypeError

\* x // 60 on a number
FloorDiv60(x) == Num(10 * (x.v \div 600))

\* round(x / 1000, 1) on a number: nearest tenth, exact ties to even
RoundDiv1000(x) ==
    LET q == x.v \div 1000
        r == x.v % 1000
    IN  Num(IF r > 500 \/ (r = 500 /\ q % 2 = 1) THEN q + 1 ELSE q)

\* round(x, 1) on a number that carries one decimal
Round1(x) == x

----------------------------------------------------------------------------
\* Dates.  A datetime is [y, m, d, t] with t the time of day (0 = midnight,
\* 1 = noon).  A string holding a date is [kind |-> "date", y, m, d, pad], pad
\* telling whether month and day are written with two digits; other kinds
\* are "unset" (no such environment variable), "empty" and "text" (any other
\* text).

IsLeap(y) == (y % 4 = 0 /\ y % 100 # 0) \/ y % 400 = 0

DaysInMonth(y, m) ==
    IF m = 2 THEN (IF IsLeap(y) THEN 29 ELSE 28)
    ELSE IF m \in {4, 6, 9, 11} THEN 30 ELSE 31

\* datetime.MAXYEAR: the last year a datetime can hold
MAXYEAR == 9999

\* datetime + timedelta(days=1) raises OverflowError past datetime.max
AddDayOverflows(dt) == dt.y = MAXYEAR /\ dt.m = 12 /\ dt.d = 31

\* datetime + timedelta(days=1)
AddDay(dt) ==
    IF dt.d < DaysInMonth(dt.y, dt.m) THEN [dt EXCEPT !.d = dt.d + 1]
    ELSE IF dt.m < 12 THEN [dt EXCEPT !.m = dt.m + 1, !.d = 1]
    ELSE [dt EXCEPT !.y = dt.y + 1, !.m = 1, !.d = 1]

\* datetime - timedelta(days=1)
SubDay(dt) ==
    IF dt.d > 1 THEN [dt EXCEPT !.d = dt.d - 1]
    ELSE IF dt.m > 1 THEN [dt EXCEPT !.m = dt.m - 1, !.d = DaysInMonth(dt.y, dt.m - 1)]
    ELSE [dt EXCEPT !.y = dt.y - 1, !.m = 12, !.d = 31]

\* a <= b on datetimes
DateLeq(a, b) ==
    \/ a.y < b.y
    \/ a.y = b.y /\ a.m < b.m
    \/ a.y = b.y /\ a.m = b.m /\ a.d < b.d
    \/ a.y = b.y /\ a.m = b.m /\ a.d = b.d /\ a.t <= b.t

\* get_date_string: strftime("%Y-%m-%d") drops the time and pads to two digits
get_date_string(dt) ==
    [kind |-> "date", y |-> dt.y, m |-> dt.m, d |-> dt.d, pad |-> TRUE]

\* strptime("%Y-%m-%d") accepts padded and unpadded months and days and
\* raises ValueError on a month or day that does not exist
ParseRaises(s) ==
    ~ (s.kind = "date" /\ s.m \in 1..12 /\ s.d >= 1 /\ s.d <= DaysInMonth(s.y, s.m))

parse_date(s) == [y |-> s.y, m |-> s.m, d |-> s.d, t |-> 0]

\* datetime.isoformat()
isoformat(dt) == [date |-> <<dt.y, dt.m, dt.d>>, T |-> dt.t]

----------------------------------------------------------------------------
\* fetch_health_data: the record and the six guarded groups

Groups == <<"stats", "hrv", "stress", "sleep", "respiration", "body">>

Endpoint(g) ==
    CASE g = "stats" -> "get_stats"
      [] g = "hrv" -> "get_hrv_data"
      [] g = "stress" -> "get_stress_data"
      [] g = "sleep" -> "get_sleep_data"
      [] g = "respiration" -> "get_respiration_data"
      [] g = "body" -> "get_body_composition"

\* the record as built before the first call
InitialRecord(date_str, fetched) ==
    [date |-> date_str, source |-> "garmin", fetchedAt |-> isoformat(fetched),
     hrv |-> NoneVal, rhr |-> NoneVal, stressAvg |-> NoneVal, respiration |-> NoneVal,
     sleepDuration |-> NoneVal, sleepDeep |-> NoneVal, sleepLight |-> NoneVal,
     sleepRem |-> NoneVal, sleepAwake |-> NoneVal, sleepScore |-> NoneVal,
     sleepInterruptions |-> NoneVal,
     steps |-> NoneVal, floors |-> NoneVal, intensityMinutes |-> NoneVal,
     intensityMinutesModerate |-> NoneVal, intensityMinutesVigorous |-> NoneVal,
     calories |-> NoneVal, activeCalories |-> NoneVal,
     weight |-> NoneVal, bmi |-> NoneVal, bodyFat |-> NoneVal, muscleMass |-> NoneVal,
     visceralFat |-> NoneVal, bodyWater |-> NoneVal, boneMass |-> NoneVal]

\* An extraction runs on [hd, exc]: hd the record so far, exc whether an
\* exception has been raised (the rest of the try block is then skipped).
Ok(hd) == [hd |-> hd, exc |-> FALSE]
Raise(hd) == [hd |-> hd, exc |-> TRUE]

\* response kinds: "raise" the call raises, "none" a falsy response (None, {}),
\* "list" a truthy response that is no mapping, "dict" a mapping
ExtractStats(hd, r) ==
    IF r.kind = "raise" THEN Raise(hd)
    ELSE IF r.kind = "none" THEN Ok(hd)
    ELSE IF r.kind = "list" THEN Raise(hd)
    ELSE LET moderate == PyOr(r.moderateIntensityMinutes, Whole(0))
             vigorous == PyOr(r.vigorousIntensityMinutes, Whole(0))
             h == [hd EXCEPT !.rhr = r.restingHeartRate,
                             !.steps = r.totalSteps,
                             !.floors = r.floorsClimbed,
                             !.calories = r.totalKilocalories,
                             !.activeCalories = r.activeKilocalories,
                             !.intensityMinutesModerate = moderate,
                             !.intensityMinutesVigorous = vigorous]
             total == Plus(moderate, Times2(vigorous))
         IN  IF total = TypeError THEN Raise(h)
             ELSE Ok([h EXCEPT !.intensityMinutes = total])

\* mutant: the whole hrvSummary mapping is stored instead of its averages
ExtractHrvStoresSummary(hd, r) ==
    IF r.kind = "raise" THEN Raise(hd)
    ELSE IF r.kind \in {"none", "list"} \/ r.summary = "absent" THEN Ok(hd)
    ELSE IF r.summary = "null" THEN Raise(hd)
    ELSE Ok([hd EXCEPT !.hrv = Nested])

\* summary: "absent" no hrvSummary key, "null" the key holds None, "dict"
ExtractHrv(hd, r) ==
    IF r.kind = "raise" THEN Raise(hd)
    ELSE IF r.kind = "none" THEN Ok(hd)
    ELSE IF r.kind = "list" THEN Ok(hd)
    ELSE IF r.summary = "absent" THEN Ok(hd)
    ELSE IF r.summary = "null" THEN Raise(hd)
    ELSE Ok([hd EXCEPT !.hrv = PyOr(r.lastNightAvg, r.weeklyAvg)])

ExtractStress(hd, r) ==
    IF r.kind = "raise" THEN Raise(hd)
    ELSE IF r.kind = "none" THEN Ok(hd)
    ELSE IF r.kind = "list" THEN Raise(hd)
    ELSE Ok([hd EXCEPT !.stressAvg = r.avgStressLevel])

\* if s.get(key): health_data[field] = s[key] // 60
SleepMinutes(st, field, x) ==
    IF st.exc \/ ~Truthy(x) THEN st
    ELSE IF IsNum(x) THEN [st EXCEPT !.hd[field] = FloorDiv60(x)]
    ELSE [st EXCEPT !.exc = TRUE]

\* scores: "absent" no sleepScores key, "nondict" a value that is no dict,
\* "overall" {"overall": {"value": scoreValue}}, "overallNull" {"overall": None},
\* "overallScore" {"overallScore": scoreValue}, "empty" a dict with neither key
SleepScore(st, r) ==
    IF st.exc THEN st
    ELSE IF r.scores \in {"overall", "overallScore"}
         THEN [st EXCEPT !.hd.sleepScore = r.scoreValue]
    ELSE IF r.scores = "overallNull" THEN [st EXCEPT !.exc = TRUE]
    ELSE st

\* dto: "absent" no dailySleepDTO key, "null" the key holds None, "dict"
ExtractSleep(hd, r) ==
    IF r.kind = "raise" THEN Raise(hd)
    ELSE IF r.kind = "none" THEN Ok(hd)
    ELSE IF r.kind = "list" THEN Ok(hd)
    ELSE IF r.dto = "absent" THEN Ok(hd)
    ELSE IF r.dto = "null" THEN Raise(hd)
    ELSE LET s1 == SleepMinutes(Ok(hd), "sleepDuration", r.sleepTimeSeconds)
             s2 == SleepMinutes(s1, "sleepDeep", r.deepSleepSeconds)
             s3 == SleepMinutes(s2, "sleepLight", r.lightSleepSeconds)
             s4 == SleepMinutes(s3, "sleepRem", r.remSleepSeconds)
             s5 == SleepMinutes(s4, "sleepAwake", r.awakeSleepSeconds)
             s6 == IF s5.exc THEN s5
                   ELSE [s5 EXCEPT !.hd.sleepInterruptions = r.awakeCount]
         IN  SleepScore(s6, r)

ExtractRespiration(hd, r) ==
    IF r.kind = "raise" THEN Raise(hd)
    ELSE IF r.kind = "none" THEN Ok(hd)
    ELSE IF r.kind = "list" THEN Raise(hd)
    ELSE Ok([hd EXCEPT !.respiration =
                PyOr(r.avgWakingRespirationValue, r.avgSleepRespirationValue)])

\* health_data[field] = round(f(body.get(key, 0)), 1) if body.get(key) else None
BodyRounded(st, field, x, grams) ==
    IF st.exc THEN st
    ELSE IF ~Truthy(x) THEN [st EXCEPT !.hd[field] = NoneVal]
    ELSE IF IsNum(x)
         THEN [st EXCEPT !.hd[field] = IF grams THEN RoundDiv1000(x) ELSE Round1(x)]
    ELSE [st EXCEPT !.exc = TRUE]

\* mutant: the block runs for every non-empty response that has a weight key
WeightGateAnyNumber(r) == r.weight.t # "none"

\* if body and body.get("weight")
WeightGate(r) == Truthy(r.weight)

ExtractBody(hd, r) ==
    IF r.kind = "raise" THEN Raise(hd)
    ELSE IF r.kind = "none" THEN Ok(hd)
    ELSE IF r.kind = "list" THEN Raise(hd)
    ELSE IF ~WeightGate(r) THEN Ok(hd)
    ELSE IF ~IsNum(r.weight) THEN Raise(hd)
    ELSE LET b0 == Ok([hd EXCEPT !.weight = RoundDiv1000(r.weight)])
             b1 == BodyRounded(b0, "bmi", r.bmi, FALSE)
             b2 == BodyRounded(b1, "bodyFat", r.bodyFat, FALSE)
             b3 == BodyRounded(b2, "muscleMass", r.muscleMass, TRUE)
             b4 == IF b3.exc THEN b3 ELSE [b3 EXCEPT !.hd.visceralFat = r.visceralFat]
             b5 == BodyRounded(b4, "bodyWater", r.bodyWater, FALSE)
         IN  BodyRounded(b5, "boneMass", r.boneMass, TRUE)

Extract(g, hd, r) ==
    CASE g = "stats" -> ExtractStats(hd, r)
      [] g = "hrv" -> ExtractHrv(hd, r)
      [] g = "stress" -> ExtractStress(hd, r)
      [] g = "sleep" -> ExtractSleep(hd, r)
      [] g = "respiration" -> ExtractRespiration(hd, r)
      [] g = "body" -> ExtractBody(hd, r)

----------------------------------------------------------------------------
\* Responses of the upstream client.  The client is opaque: each call draws
\* its response from a set.  A direct call of fetch_health_data draws from
\* the full sets; calls made through main draw from short ones.

RaiseResp == [kind |-> "raise"]
NoneResp == [kind |-> "none"]
ListResp == [kind |-> "list"]

StatsDict(rhr, present, moderate, vigorous) ==
    [kind |-> "dict",
     restingHeartRate |-> rhr,
     totalSteps |-> IF present THEN Whole(8000) ELSE NoneVal,
     floorsClimbed |-> IF present THEN Whole(12) ELSE NoneVal,
     totalKilocalories |-> IF present THEN Whole(2200) ELSE NoneVal,
     activeKilocalories |-> IF present THEN Whole(600) ELSE NoneVal,
     moderateIntensityMinutes |-> moderate,
     vigorousIntensityMinutes |-> vigorous]

GoodStats == StatsDict(Whole(55), TRUE, Whole(30), Whole(10))

StatsResponses(s) ==
    IF s # "direct" THEN {RaiseResp, NoneResp, GoodStats}
    ELSE {RaiseResp, NoneResp, GoodStats,
          StatsDict(Whole(55), TRUE, NoneVal, NoneVal),
          StatsDict(NoneVal, FALSE, NoneVal, NoneVal),
          StatsDict(Whole(55), TRUE, Whole(0), Whole(10)),
          StatsDict(Whole(55), TRUE, Nested, Whole(10)),
          StatsDict(Whole(55), TRUE, List(1), List(2)),
          StatsDict(Nested, TRUE, Whole(30), Whole(10))}

HrvDict(summary, last, weekly) ==
    [kind |-> "dict", summary |-> summary, lastNightAvg |-> last, weeklyAvg |-> weekly]

HrvResponses(s) ==
    IF s # "direct" THEN {RaiseResp, NoneResp}
    ELSE {RaiseResp, NoneResp,
          HrvDict("absent", NoneVal, NoneVal),
          HrvDict("null", NoneVal, NoneVal),
          HrvDict("dict", Whole(45), Whole(50)),
          HrvDict("dict", NoneVal, Whole(50)),
          HrvDict("dict", Whole(0), Whole(50)),
          HrvDict("dict", NoneVal, NoneVal)}

StressDict(avg) == [kind |-> "dict", avgStressLevel |-> avg]

StressResponses(s) ==
    IF s # "direct" THEN {RaiseResp, NoneResp}
    ELSE {RaiseResp, ListResp, StressDict(NoneVal), StressDict(Whole(35))}

SleepDict(dto, total, deep, light, rem, awake, count, scores, value) ==
    [kind |-> "dict", dto |-> dto,
     sleepTimeSeconds |-> total, deepSleepSeconds |-> deep,
     lightSleepSeconds |-> light, remSleepSeconds |-> rem,
     awakeSleepSeconds |-> awake, awakeCount |-> count,
     scores |-> scores, scoreValue |-> value]

SleepResponses(s) ==
    IF s # "direct" THEN {RaiseResp, NoneResp}
    ELSE {RaiseResp,
          SleepDict("absent", NoneVal, NoneVal, NoneVal, NoneVal, NoneVal, NoneVal,
                    "absent", NoneVal),
          SleepDict("null", NoneVal, NoneVal, NoneVal, NoneVal, NoneVal, NoneVal,
                    "absent", NoneVal),
          SleepDict("dict", Whole(28830), Whole(5400), Whole(14400), Whole(7200),
                    Whole(1800), Whole(2), "overall", Whole(80)),
          SleepDict("dict", Whole(28830), Whole(5400), Whole(14400), Whole(7200),
                    Whole(1800), Whole(2), "overallScore", Whole(75)),
          SleepDict("dict", Whole(28830), Whole(0), NoneVal, Whole(7200),
                    NoneVal, NoneVal, "absent", NoneVal),
          SleepDict("dict", Whole(28830), Nested, Whole(14400), Whole(7200),
                    Whole(1800), Whole(2), "overall", Whole(80)),
          SleepDict("dict", Whole(28830), Whole(5400), Whole(14400), Whole(7200),
                    Whole(1800), Whole(2), "overallNull", NoneVal),
          SleepDict("dict", NoneVal, NoneVal, NoneVal, NoneVal, NoneVal, Whole(2),
                    "nondict", NoneVal)}

RespirationDict(waking, asleep) ==
    [kind |-> "dict", avgWakingRespirationValue |-> waking,
     avgSleepRespirationValue |-> asleep]

RespirationResponses(s) ==
    IF s # "direct" THEN {RaiseResp, NoneResp}
    ELSE {RaiseResp, NoneResp,
          RespirationDict(Whole(16), Whole(14)),
          RespirationDict(NoneVal, Whole(14))}

BodyDict(weight, bmi, fat, muscle, visceral, water, bone) ==
    [kind |-> "dict", weight |-> weight, bmi |-> bmi, bodyFat |-> fat,
     muscleMass |-> muscle, visceralFat |-> visceral, bodyWater |-> water,
     boneMass |-> bone]

BodyWeights == {NoneVal, Whole(0), Whole(70340)}

BodyResponses(s) ==
    IF s # "direct" THEN {RaiseResp, NoneResp}
    ELSE {RaiseResp, NoneResp,
          BodyDict(Nested, Num(224), Num(185), Whole(32150), Whole(7), Num(553),
                   Whole(3260)),
          BodyDict(Whole(70340), Nested, Num(185), Whole(32150), Whole(7), Num(553),
                   Whole(3260)),
          BodyDict(Whole(70340), NoneVal, Num(185), Whole(32150), Whole(0), Whole(0),
                   Whole(3260))}
         \cup UNION {
               {BodyDict(w, Num(224), Num(185), Whole(32150), Whole(7), Num(553),
                         Whole(3260)),
                BodyDict(w, NoneVal, NoneVal, NoneVal, NoneVal, NoneVal, NoneVal),
                BodyDict(w, Num(224), Whole(0), NoneVal, NoneVal, Num(553), Whole(0))}
               : w \in BodyWeights}

Responses(g, s) ==
    CASE g = "stats" -> StatsResponses(s)
      [] g = "hrv" -> HrvResponses(s)
      [] g = "stress" -> StressResponses(s)
      [] g = "sleep" -> SleepResponses(s)
      [] g = "respiration" -> RespirationResponses(s)
      [] g = "body" -> BodyResponses(s)

----------------------------------------------------------------------------
\* Environment and initial state

Str(kind, y, m, d, pad) == [kind |-> kind, y |-> y, m |-> m, d |-> d, pad |-> pad]
Unset == Str("unset", 0, 0, 0, TRUE)
Empty == Str("empty", 0, 0, 0, TRUE)
Text == Str("text", 0, 0, 0, TRUE)

\* not s, for a value of os.environ.get
StrTruthy(s) == s.kind \notin {"unset", "empty"}

Years == {2023, 2024}

DateStrings ==
    {Str("date", y, md[1], md[2], TRUE) :
        y \in Years, md \in {<<2, 28>>, <<2, 29>>, <<3, 1>>, <<12, 31>>, <<1, 1>>}}
    \cup {Str("date", 2024, 3, 1, FALSE), Str("date", 2024, 1, 1, FALSE),
          Str("date", 2024, 13, 1, TRUE),
          Str("date", MAXYEAR, 12, 30, TRUE), Str("date", MAXYEAR, 12, 31, TRUE)}

EnvDates == DateStrings \cup {Unset, Empty, Text}
Credentials == {Unset, Empty, Text}

DateTime(y, m, d, t) == [y |-> y, m |-> m, d |-> d, t |-> t]
NoDateTime == DateTime(0, 0, 0, 0)
NowValues == {DateTime(2024, 3, 1, 0), DateTime(2024, 1, 1, 1)}

\* number of days from 0001-01-01 to the date of dt, plus one (date.toordinal)
DaysBeforeYear(y) ==
    365 * (y - 1) + ((y - 1) \div 4) - ((y - 1) \div 100) + ((y - 1) \div 400)

RECURSIVE DaysBeforeMonth(_, _)
DaysBeforeMonth(y, m) ==
    IF m <= 1 THEN 0 ELSE DaysBeforeMonth(y, m - 1) + DaysInMonth(y, m - 1)

Ordinal(dt) == DaysBeforeYear(dt.y) + DaysBeforeMonth(dt.y, dt.m) + dt.d

\* END_DATE - START_DATE in days
Span(e) == Ordinal(parse_date(e.END_DATE)) - Ordinal(parse_date(e.START_DATE))

\* every pair of date strings at most MaxSpan days apart, and every way of
\* leaving one of the two variables unset or empty
Environments ==
    {e \in [GARMIN_EMAIL : Credentials, GARMIN_PASSWORD : Credentials,
            START_DATE : EnvDates, END_DATE : EnvDates] :
        /\ (~ParseRaises(e.START_DATE) /\ ~ParseRaises(e.END_DATE)) => Span(e) <= MaxSpan
        /\ (~StrTruthy(e.START_DATE) \/ ~StrTruthy(e.END_DATE)) =>
              {e.START_DATE, e.END_DATE} \subseteq
                  {Unset, Empty, Str("date", 2024, 3, 1, TRUE)}}

GroupSet == {Groups[i] : i \in 1..Len(Groups)}
Pending == [g \in GroupSet |-> [kind |-> "pending"]]
NoRecord == InitialRecord(Unset, NoDateTime)
Absent == [exists |-> FALSE, doc |-> NoneVal]

Locals ==
    /\ current_date = NoDateTime
    /\ end_date = NoDateTime
    /\ today = NoDateTime
    /\ health_data = NoRecord
    /\ resp = Pending
    /\ failed = {}
    /\ today_data = NoneVal
    /\ yesterday_data = NoneVal
    /\ history = <<>>
    /\ output = NoneVal
    /\ calls = <<>>
    /\ login_result = "none"
    /\ ticks = 0
    /\ file = Absent

\* the process starts main()
Init ==
    /\ env \in Environments
    /\ now \in NowValues
    /\ pc = "start"
    /\ site = "none"
    /\ status = "running"
    /\ target_date = NoDateTime
    /\ Locals

----------------------------------------------------------------------------
\* main

Call(op, date_str) == [op |-> op, date |-> date_str]

\* mutant: only the absence of both credentials is fatal
MissingBothCredentials(e) == ~StrTruthy(e.GARMIN_EMAIL) /\ ~StrTruthy(e.GARMIN_PASSWORD)

\* if not email or not password
MissingCredentials(e) == ~StrTruthy(e.GARMIN_EMAIL) \/ ~StrTruthy(e.GARMIN_PASSWORD)

CheckCredentials ==
    /\ pc = "start"
    /\ IF MissingCredentials(env)
       THEN pc' = "exited" /\ status' = "1"
       ELSE pc' = "login" /\ status' = status
    /\ UNCHANGED <<login_result, env, now, site, current_date, end_date, health_data, resp, failed,
                   target_date, today, output, today_data, yesterday_data, history,
                   calls, ticks, file>>

\* Garmin(email, password) or client.login() may raise
Login ==
    /\ pc = "login"
    /\ \E outcome \in {"ok", "constructor raises", "login raises"} :
        /\ login_result' = outcome
        /\ calls' = IF outcome = "constructor raises" THEN calls
                    ELSE Append(calls, Call("login", Unset))
        /\ IF outcome = "ok"
           THEN pc' = "branch" /\ status' = status
           ELSE pc' = "exited" /\ status' = "1"
    /\ UNCHANGED <<env, now, site, current_date, end_date, health_data, resp, failed,
                   target_date, today, output, today_data, yesterday_data, history,
                   ticks, file>>

\* mutant: one of the two dates is enough to select the range branch
HistoricalEither(e) == StrTruthy(e.START_DATE) \/ StrTruthy(e.END_DATE)

\* if start_date_str and end_date_str
Historical(e) == StrTruthy(e.START_DATE) /\ StrTruthy(e.END_DATE)

EnterHistorical ==
    /\ pc = "branch"
    /\ Historical(env)
    /\ site' = "hist"
    /\ IF ParseRaises(env.START_DATE) \/ ParseRaises(env.END_DATE)
       THEN /\ pc' = "exited"
            /\ status' = "1"
            /\ UNCHANGED <<current_date, end_date>>
       ELSE /\ pc' = "loop"
            /\ status' = status
            /\ current_date' = parse_date(env.START_DATE)
            /\ end_date' = parse_date(env.END_DATE)
    /\ history' = <<>>
    /\ UNCHANGED <<login_result, env, now, health_data, resp, failed, target_date, today, output,
                   today_data, yesterday_data, calls, ticks, file>>

EnterDaily ==
    /\ pc = "branch"
    /\ ~Historical(env)
    /\ site' = "today"
    /\ today' = now
    /\ target_date' = now
    /\ pc' = "fetch"
    /\ UNCHANGED <<login_result, env, now, status, current_date, end_date, health_data, resp, failed,
                   output, today_data, yesterday_data, history, calls, ticks, file>>

\* a < b on datetimes
DateLess(a, b) == DateLeq(a, b) /\ a # b

\* mutant: the loop stops before the last day
LoopContinuesExclusive(cur, last) == DateLess(cur, last)

\* while current_date <= end_date
LoopContinues(cur, last) == DateLeq(cur, last)

LoopBody ==
    /\ pc = "loop"
    /\ LoopContinues(current_date, end_date)
    /\ target_date' = current_date
    /\ pc' = "fetch"
    /\ UNCHANGED <<login_result, env, now, site, status, current_date, end_date, health_data, resp,
                   failed, today, output, today_data, yesterday_data, history, calls,
                   ticks, file>>

\* mutant: the range is written back from the parsed dates
HistoricalOutputReformatted(e, hist, stamp) ==
    [lastSync |-> isoformat(stamp), mode |-> "historical",
     startDate |-> get_date_string(parse_date(e.START_DATE)),
     endDate |-> get_date_string(parse_date(e.END_DATE)),
     today |-> NoneVal, yesterday |-> NoneVal, history |-> hist]

HistoricalOutput(e, hist, stamp) ==
    [lastSync |-> isoformat(stamp), mode |-> "historical",
     startDate |-> e.START_DATE, endDate |-> e.END_DATE,
     today |-> NoneVal, yesterday |-> NoneVal, history |-> hist]

DailyOutput(t, y, stamp) ==
    [lastSync |-> isoformat(stamp), mode |-> "daily",
     today |-> t, yesterday |-> y, history |-> <<>>]

LoopExit ==
    /\ pc = "loop"
    /\ ~LoopContinues(current_date, end_date)
    /\ output' = HistoricalOutput(env, history, now)
    /\ pc' = "write"
    /\ UNCHANGED <<login_result, env, now, site, status, current_date, end_date, health_data, resp,
                   failed, target_date, today, today_data, yesterday_data, history,
                   calls, ticks, file>>

----------------------------------------------------------------------------
\* fetch_health_data, one step per statement group

FetchBegin ==
    /\ pc = "fetch"
    /\ health_data' = InitialRecord(get_date_string(target_date), now)
    /\ resp' = Pending
    /\ failed' = {}
    /\ pc' = "stats"
    /\ UNCHANGED <<login_result, env, now, site, status, current_date, end_date, target_date, today,
                   output, today_data, yesterday_data, history, calls, ticks, file>>

\* mutant: one try block around the six calls, a failure ends the day
CallGroupAbortsDay(g, next) ==
    /\ pc = g
    /\ \E r \in Responses(g, site) :
        LET st == Extract(g, health_data, r)
        IN  /\ health_data' = st.hd
            /\ failed' = IF st.exc THEN failed \cup {g} ELSE failed
            /\ resp' = [resp EXCEPT ![g] = r]
            /\ pc' = IF st.exc THEN "ret" ELSE next
    /\ calls' = Append(calls, Call(Endpoint(g), get_date_string(target_date)))
    /\ UNCHANGED <<login_result, env, now, site, status, current_date, end_date,
                   target_date, today, output, today_data, yesterday_data, history,
                   ticks, file>>

\* one try block: the call, the extraction, the except handler
CallGroup(g, next) ==
    /\ pc = g
    /\ \E r \in Responses(g, site) :
        LET st == Extract(g, health_data, r)
        IN  /\ health_data' = st.hd
            /\ failed' = IF st.exc THEN failed \cup {g} ELSE failed
            /\ resp' = [resp EXCEPT ![g] = r]
    /\ calls' = Append(calls, Call(Endpoint(g), get_date_string(target_date)))
    /\ pc' = next
    /\ UNCHANGED <<login_result, env, now, site, status, current_date, end_date, target_date, today,
                   output, today_data, yesterday_data, history, ticks, file>>

CallStats == CallGroup("stats", "hrv")
CallHrv == CallGroup("hrv", "stress")
CallStress == CallGroup("stress", "sleep")
CallSleep == CallGroup("sleep", "respiration")
CallRespiration == CallGroup("respiration", "body")
CallBody == CallGroup("body", "ret")

\* data = fetch_health_data(...); history.append(data); current_date += 1 day
\* (an OverflowError raised by the addition is caught nowhere)
ReturnHistorical ==
    /\ pc = "ret"
    /\ site = "hist"
    /\ history' = Append(history, health_data)
    /\ IF AddDayOverflows(current_date)
       THEN pc' = "exited" /\ status' = "1" /\ current_date' = current_date
       ELSE pc' = "loop" /\ status' = status /\ current_date' = AddDay(current_date)
    /\ health_data' = NoRecord
    /\ resp' = Pending
    /\ failed' = {}
    /\ UNCHANGED <<login_result, env, now, site, end_date, target_date, today, output,
                   today_data, yesterday_data, calls, ticks, file>>

\* today_data = fetch_health_data(client, today); yesterday = today - 1 day
ReturnToday ==
    /\ pc = "ret"
    /\ site = "today"
    /\ today_data' = health_data
    /\ target_date' = SubDay(today)
    /\ site' = "yesterday"
    /\ pc' = "fetch"
    /\ health_data' = NoRecord
    /\ resp' = Pending
    /\ failed' = {}
    /\ UNCHANGED <<login_result, env, now, status, current_date, end_date, today, output,
                   yesterday_data, history, calls, ticks, file>>

\* yesterday_data = fetch_health_data(client, yesterday); output = {...}
ReturnYesterday ==
    /\ pc = "ret"
    /\ site = "yesterday"
    /\ yesterday_data' = health_data
    /\ output' = DailyOutput(today_data, health_data, now)
    /\ pc' = "write"
    /\ health_data' = NoRecord
    /\ resp' = Pending
    /\ failed' = {}
    /\ UNCHANGED <<login_result, env, now, site, status, current_date, end_date, target_date, today,
                   today_data, history, calls, ticks, file>>

\* json.dump(output, f); main returns and the process ends with status 0
WriteFile ==
    /\ pc = "write"
    /\ file' = [exists |-> TRUE, doc |-> output]
    /\ calls' = Append(calls, Call("write", Unset))
    /\ status' = "0"
    /\ pc' = "done"
    /\ UNCHANGED <<login_result, env, now, site, current_date, end_date, health_data, resp, failed,
                   target_date, today, output, today_data, yesterday_data, history,
                   ticks>>

\* time passes while the process runs
Later(dt) == IF dt.t = 0 THEN [dt EXCEPT !.t = 1] ELSE [AddDay(dt) EXCEPT !.t = 0]

Tick ==
    /\ pc \notin {"start", "exited", "done", "returned"}
    /\ ticks < MaxTicks
    /\ ticks' = ticks + 1
    /\ now' = Later(now)
    /\ UNCHANGED <<login_result, env, pc, site, status, current_date, end_date, health_data, resp,
                   failed, target_date, today, output, today_data, yesterday_data,
                   history, calls, file>>

Step ==
    \/ CheckCredentials
    \/ Login
    \/ EnterHistorical
    \/ EnterDaily
    \/ LoopBody
    \/ LoopExit
    \/ FetchBegin
    \/ CallStats
    \/ CallHrv
    \/ CallStress
    \/ CallSleep
    \/ CallRespiration
    \/ CallBody
    \/ ReturnHistorical
    \/ ReturnToday
    \/ ReturnYesterday
    \/ WriteFile

Next == Step \/ Tick

Spec == Init /\ [][Next]_vars

----------------------------------------------------------------------------
\* fetch_health_data called on its own, with the full response sets

TargetDates == {DateTime(2024, 2, 29, 1), DateTime(2023, 12, 31, 0)}

InitFetch ==
    /\ env = [GARMIN_EMAIL |-> Text, GARMIN_PASSWORD |-> Text,
              START_DATE |-> Unset, END_DATE |-> Unset]
    /\ now \in {DateTime(2024, 3, 1, 0)}
    /\ pc = "fetch"
    /\ site = "direct"
    /\ status = "running"
    /\ Locals
    /\ \E t \in TargetDates :
         target_date = t

\* return health_data
ReturnDirect ==
    /\ pc = "ret"
    /\ site = "direct"
    /\ pc' = "returned"
    /\ UNCHANGED <<login_result, env, now, site, status, current_date, end_date, health_data, resp,
                   failed, target_date, today, output, today_data, yesterday_data,
                   history, calls, ticks, file>>

NextFetch ==
    \/ FetchBegin
    \/ CallStats
    \/ CallHrv
    \/ CallStress
    \/ CallSleep
    \/ CallRespiration
    \/ CallBody
    \/ ReturnDirect

SpecFetch == InitFetch /\ [][NextFetch]_vars

----------------------------------------------------------------------------
\* Vocabulary of the properties of main

\* both START_DATE and END_DATE are set and non-empty
BothSet ==
    /\ env.START_DATE.kind \notin {"unset", "empty"}
    /\ env.END_DATE.kind \notin {"unset", "empty"}

CredentialsMissing ==
    \/ env.GARMIN_EMAIL.kind \in {"unset", "empty"}
    \/ env.GARMIN_PASSWORD.kind \in {"unset", "empty"}

IsData(c) == c.op \notin {"login", "write"}
DataCalls == {i \in 1..Len(calls) : IsData(calls[i])}
Written == file.exists
SameDay(a, b) == <<a.y, a.m, a.d>> = <<b.y, b.m, b.d>>
RealDate(s) == s.kind = "date" /\ s.m \in 1..12 /\ s.d \in 1..DaysInMonth(s.y, s.m)
Max0(n) == IF n < 0 THEN 0 ELSE n

\* both dates parsed and the range loop has ended
RangeDone ==
    /\ site = "hist"
    /\ ~ParseRaises(env.START_DATE) /\ ~ParseRaises(env.END_DATE)
    /\ pc \in {"write", "done", "exited"}

\* C1: a written document has the keys lastSync, mode, today, yesterday and
\* history; its mode is "historical" when both dates are given and "daily"
\* otherwise; in historical mode it also has startDate and endDate, equal to
\* the START_DATE and END_DATE strings given.
C1_TopLevelKeys ==
    Written =>
        LET doc == file.doc
        IN  /\ {"lastSync", "mode", "today", "yesterday", "history"} \subseteq DOMAIN doc
            /\ IF BothSet
               THEN /\ doc.mode = "historical"
                    /\ {"startDate", "endDate"} \subseteq DOMAIN doc
                    /\ doc.startDate = env.START_DATE
                    /\ doc.endDate = env.END_DATE
               ELSE doc.mode = "daily"

\* a historical document written from a START_DATE without leading zeros
C1_Witness ==
    /\ Written
    /\ BothSet
    /\ ~env.START_DATE.pad
    /\ file.doc.history # <<>>

\* C2: in historical mode with START_DATE <= END_DATE, history holds one
\* record per calendar date from START_DATE to END_DATE inclusive, in
\* ascending order: the first is dated START_DATE, the last END_DATE, each
\* next one is dated one day later, and there are (END - START) + 1 of them.
C2_InclusiveRange ==
    (RangeDone /\ Span(env) >= 0) =>
        LET h == IF Written THEN file.doc.history ELSE history
        IN  /\ Len(h) = Span(env) + 1
            /\ SameDay(h[1].date, env.START_DATE)
            /\ SameDay(h[Len(h)].date, env.END_DATE)
            /\ \A i \in 1..Len(h) :
                  /\ RealDate(h[i].date)
                  /\ Ordinal(h[i].date) = Ordinal(env.START_DATE) + (i - 1)

\* a range of three days that crosses the end of a month
C2_Witness ==
    /\ Written
    /\ BothSet
    /\ Len(file.doc.history) = 3
    /\ file.doc.history[1].date.m # file.doc.history[3].date.m

\* C5: with a credential unset or empty, main exits with a non-zero status
\* and never attempts a login; when the constructor or login raises, main
\* exits with a non-zero status; in both cases no data endpoint is called
\* and the file is not written.
C5_FatalErrors ==
    /\ CredentialsMissing =>
          /\ pc \in {"start", "exited"}
          /\ pc = "exited" => status = "1"
          /\ login_result = "none"
          /\ calls = <<>>
          /\ ~Written
    /\ login_result \in {"constructor raises", "login raises"} =>
          /\ pc = "exited"
          /\ status = "1"
          /\ DataCalls = {}
          /\ ~Written

\* main has exited after login raised
C5_Witness ==
    /\ pc = "exited"
    /\ login_result = "login raises"
    /\ status = "1"

\* C6: login is the first call and is made once; the data calls come in
\* blocks of six, in the order get_stats, get_hrv_data, get_stress_data,
\* get_sleep_data, get_respiration_data, get_body_composition, all six of a
\* block for one date and no date in two blocks; the write is the last call,
\* made once, after complete blocks only, one block per day fetched.
C6_CallOrder ==
    LET n == Len(calls)
        block(i) == (i - 2) \div 6
        slot(i) == ((i - 2) % 6) + 1
    IN  /\ \A i \in 1..n : calls[i].op = "login" <=> i = 1
        /\ \A i \in 1..n : calls[i].op = "write" => (i = n /\ slot(n) = 1)
        /\ \A i \in DataCalls :
              /\ calls[i].op = Endpoint(Groups[slot(i)])
              /\ calls[i].date = calls[i - (slot(i) - 1)].date
        /\ \A a, b \in {block(i) : i \in DataCalls} :
              calls[2 + 6 * a].date = calls[2 + 6 * b].date => a = b
        /\ Written <=> (n >= 1 /\ calls[n].op = "write")
        /\ pc = "done" =>
              /\ Written
              /\ Cardinality(DataCalls) =
                    6 * (IF BothSet THEN Len(history) ELSE 2)

\* a finished historical run of at least two days
C6_Witness ==
    /\ pc = "done"
    /\ BothSet
    /\ Len(calls) >= 14
    /\ file.doc.history[1].steps # file.doc.history[2].steps

\* C7: main takes the range branch exactly when both dates are set and
\* non-empty.  A daily document has mode "daily", comes after exactly two
\* day fetches, holds as today the record of the date read from the clock
\* and as yesterday the record of the day before, and its history is empty;
\* a historical document has null today and yesterday and holds the fetched
\* records as history.
C7_ModeSelection ==
    /\ site # "none" => (site = "hist" <=> BothSet)
    /\ (Written /\ ~BothSet) =>
          LET doc == file.doc
          IN  /\ doc.mode = "daily"
              /\ Cardinality(DataCalls) = 12
              /\ SameDay(doc.today.date, today)
              /\ RealDate(doc.yesterday.date)
              /\ Ordinal(doc.yesterday.date) = Ordinal(doc.today.date) - 1
              /\ \A i \in 2..7 : calls[i].date = doc.today.date
              /\ \A i \in 8..13 : calls[i].date = doc.yesterday.date
              /\ doc.today = today_data
              /\ doc.yesterday = yesterday_data
              /\ doc.history = <<>>
    /\ (Written /\ BothSet) =>
          LET doc == file.doc
          IN  /\ doc.mode = "historical"
              /\ doc.today = NoneVal
              /\ doc.yesterday = NoneVal
              /\ doc.history = history
              /\ Cardinality(DataCalls) = 6 * Len(history)

\* a daily document written with START_DATE set and END_DATE unset, whose
\* yesterday falls in the previous month
C7_Witness ==
    /\ Written
    /\ env.START_DATE.kind = "date"
    /\ env.END_DATE.kind = "unset"
    /\ file.doc.mode = "daily"
    /\ file.doc.today.date.m # file.doc.yesterday.date.m

\* C9: a run that logged in and parsed both dates ends with the file
\* written, in mode "historical", after exactly max(0, END - START + 1) day
\* fetches; with START later than END that is no data call at all and an
\* empty history.
C9_RangeRunWrites ==
    RangeDone =>
        /\ pc # "exited"
        /\ pc = "done" =>
              /\ status = "0"
              /\ Written
              /\ file.doc.mode = "historical"
              /\ Len(file.doc.history) = Max0(Span(env) + 1)
              /\ Cardinality(DataCalls) = 6 * Max0(Span(env) + 1)

----------------------------------------------------------------------------
\* Vocabulary of the properties of fetch_health_data

FieldNames ==
    {"date", "source", "fetchedAt",
     "hrv", "rhr", "stressAvg", "respiration",
     "sleepDuration", "sleepDeep", "sleepLight", "sleepRem", "sleepAwake",
     "sleepScore", "sleepInterruptions",
     "steps", "floors", "intensityMinutes", "intensityMinutesModerate",
     "intensityMinutesVigorous", "calories", "activeCalories",
     "weight", "bmi", "bodyFat", "muscleMass", "visceralFat", "bodyWater", "boneMass"}

MetricFields == FieldNames \ {"date", "source", "fetchedAt"}

BodyFields ==
    {"weight", "bmi", "bodyFat", "muscleMass", "visceralFat", "bodyWater", "boneMass"}

\* the fields each try block writes
GroupFields(g) ==
    CASE g = "stats" -> {"rhr", "steps", "floors", "calories", "activeCalories",
                         "intensityMinutes", "intensityMinutesModerate",
                         "intensityMinutesVigorous"}
      [] g = "hrv" -> {"hrv"}
      [] g = "stress" -> {"stressAvg"}
      [] g = "sleep" -> {"sleepDuration", "sleepDeep", "sleepLight", "sleepRem",
                         "sleepAwake", "sleepScore", "sleepInterruptions"}
      [] g = "respiration" -> {"respiration"}
      [] g = "body" -> BodyFields

\* the upstream values a field is read from, given the responses rs; empty
\* when the response or the container that would hold them is missing
Sources(f, rs) ==
    LET st == rs["stats"]
        hv == rs["hrv"]
        ss == rs["stress"]
        sl == rs["sleep"]
        rp == rs["respiration"]
        bd == rs["body"]
        dto == sl.kind = "dict" /\ sl.dto = "dict"
    IN  CASE f = "rhr" -> IF st.kind = "dict" THEN {st.restingHeartRate} ELSE {}
          [] f = "steps" -> IF st.kind = "dict" THEN {st.totalSteps} ELSE {}
          [] f = "floors" -> IF st.kind = "dict" THEN {st.floorsClimbed} ELSE {}
          [] f = "calories" -> IF st.kind = "dict" THEN {st.totalKilocalories} ELSE {}
          [] f = "activeCalories" ->
                IF st.kind = "dict" THEN {st.activeKilocalories} ELSE {}
          [] f = "intensityMinutesModerate" ->
                IF st.kind = "dict" THEN {st.moderateIntensityMinutes} ELSE {}
          [] f = "intensityMinutesVigorous" ->
                IF st.kind = "dict" THEN {st.vigorousIntensityMinutes} ELSE {}
          [] f = "intensityMinutes" ->
                IF st.kind = "dict"
                THEN {st.moderateIntensityMinutes, st.vigorousIntensityMinutes} ELSE {}
          [] f = "hrv" ->
                IF hv.kind = "dict" /\ hv.summary = "dict"
                THEN {hv.lastNightAvg, hv.weeklyAvg} ELSE {}
          [] f = "stressAvg" -> IF ss.kind = "dict" THEN {ss.avgStressLevel} ELSE {}
          [] f = "sleepDuration" -> IF dto THEN {sl.sleepTimeSeconds} ELSE {}
          [] f = "sleepDeep" -> IF dto THEN {sl.deepSleepSeconds} ELSE {}
          [] f = "sleepLight" -> IF dto THEN {sl.lightSleepSeconds} ELSE {}
          [] f = "sleepRem" -> IF dto THEN {sl.remSleepSeconds} ELSE {}
          [] f = "sleepAwake" -> IF dto THEN {sl.awakeSleepSeconds} ELSE {}
          [] f = "sleepInterruptions" -> IF dto THEN {sl.awakeCount} ELSE {}
          [] f = "sleepScore" ->
                IF dto /\ sl.scores \in {"overall", "overallScore"}
                THEN {sl.scoreValue} ELSE {}
          [] f = "respiration" ->
                IF rp.kind = "dict"
                THEN {rp.avgWakingRespirationValue, rp.avgSleepRespirationValue}
                ELSE {}
          [] f = "weight" -> IF bd.kind = "dict" THEN {bd.weight} ELSE {}
          [] f = "bmi" -> IF bd.kind = "dict" THEN {bd.bmi} ELSE {}
          [] f = "bodyFat" -> IF bd.kind = "dict" THEN {bd.bodyFat} ELSE {}
          [] f = "muscleMass" -> IF bd.kind = "dict" THEN {bd.muscleMass} ELSE {}
          [] f = "visceralFat" -> IF bd.kind = "dict" THEN {bd.visceralFat} ELSE {}
          [] f = "bodyWater" -> IF bd.kind = "dict" THEN {bd.bodyWater} ELSE {}
          [] f = "boneMass" -> IF bd.kind = "dict" THEN {bd.boneMass} ELSE {}

\* the upstream value of f is missing: no source carries a value
UpstreamMissing(f, rs) == \A x \in Sources(f, rs) : x = NoneVal

Returned == pc = "returned"
InFetch == pc \in {"stats", "hrv", "stress", "sleep", "respiration", "body", "ret",
                   "returned"}

----------------------------------------------------------------------------
\* C3: whatever the six endpoints answer (a raise, an empty response, a
\* missing container, a missing field), fetch_health_data returns, and every
\* metric field whose upstream value was missing is null in the record,
\* never a default number.
C3_MissingIsNull ==
    Returned =>
        \A f \in MetricFields :
            UpstreamMissing(f, resp) => health_data[f] = NoneVal

\* C4: a group that failed with an exception leaves all its fields null, and
\* the fields of every group hold what that group's own response alone
\* yields, whatever happened to the other groups.
C4_FailedGroupNull ==
    Returned =>
        /\ \A g \in failed : \A f \in GroupFields(g) : health_data[f] = NoneVal
        /\ \A g \in GroupSet : \A f \in GroupFields(g) :
              health_data[f] =
                  Extract(g, InitialRecord(health_data.date, now), resp[g]).hd[f]

\* fields stored as the upstream value itself, without arithmetic
PassThrough ==
    {"rhr", "steps", "floors", "calories", "activeCalories",
     "intensityMinutesModerate", "intensityMinutesVigorous", "hrv", "stressAvg",
     "sleepInterruptions", "sleepScore", "respiration", "visceralFat"}

Scalar(x) == x.t \in {"none", "num"}

\* the 28 names, the requested date as YYYY-MM-DD, the source
FixedPart ==
    /\ DOMAIN health_data = FieldNames
    /\ Cardinality(DOMAIN health_data) = 28
    /\ health_data.date.kind = "date"
    /\ health_data.date.pad
    /\ <<health_data.date.y, health_data.date.m, health_data.date.d>> =
           <<target_date.y, target_date.m, target_date.d>>
    /\ health_data.source = "garmin"

\* C8 as stated: the record built by fetch_health_data always has the same
\* 28 field names, its date is the requested date, its source is "garmin",
\* and every metric field is null or a scalar, whatever the endpoints return.
C8_AlwaysScalar ==
    InFetch => FixedPart /\ \A f \in MetricFields : Scalar(health_data[f])

\* C8 amended: the record always has the same 28 field names, its date is
\* the requested date, its source is "garmin", and every metric field is
\* null or a scalar whenever the upstream values it is read from are null
\* or scalars; a field stored without arithmetic that is not a scalar holds
\* the very value the upstream response carried for it.
C8_RecordShape ==
    InFetch =>
        /\ FixedPart
        /\ \A f \in MetricFields :
              \/ Scalar(health_data[f])
              \/ /\ \E x \in Sources(f, resp) : ~Scalar(x)
                 /\ f \in PassThrough => health_data[f] \in Sources(f, resp)

\* a returned record in which a group failed and intensityMinutes was
\* built from nested upstream values
C8_Witness ==
    /\ Returned
    /\ failed # {}
    /\ health_data.intensityMinutes.t = "list"
    /\ \E f \in MetricFields : health_data[f].t = "num"

\* the body values are numbers or missing
NumericBody(r) ==
    \A x \in {r.weight, r.bmi, r.bodyFat, r.muscleMass, r.visceralFat, r.bodyWater,
              r.boneMass} : Scalar(x)

====
